---- MODULE Spec2Model ----
(***************************************************************************)
(* Model of xsgen's burnup-criticality plugin:                             *)
(*   - buk.py            XSGenPlugin.same_except_burnup_time / execute     *)
(*   - openmc_origen.py  OpenMCOrigen.generate_run / generate / openmc /   *)
(*                       origen                                            *)
(*   - brightlite.py     BrightliteWriter.write                            *)
(* A State is a tuple of perturbation parameters, one of which is named    *)
(* burn_times.  Five specifications are given:                             *)
(*   SpecGroup  the grouping loop of execute, one outer iteration per step,*)
(*              over every input sequence of States up to MaxGroupStates;  *)
(*   Spec       sessions on one build directory, each with its own         *)
(*              OpenMCOrigen instance: execute, and calls of generate_run  *)
(*              on the runs execute left in rc.runs, with each external    *)
(*              solver stage free to succeed or to fail.                   *)
(*   SpecReplay the same actions on one design space of two runs, over     *)
(*              longer histories of calls and restarts;                    *)
(*   SpecWriter the row and nuclide-table loop of BrightliteWriter.write   *)
(*              over every list of up to MaxWriteSteps per-step materials; *)
(*   SpecConcurrent  two callers inside generate of one instance at the    *)
(*              same time, interleaved statement by statement.             *)
(* Fractions are scaled by 10^4 (1.0 is 10000) to stay in the integers.    *)
(***************************************************************************)
EXTENDS Integers, Sequences, FiniteSets, Bags, TLC

\* ---------------------------------------------------------------- bounds
\* longest input sequence of SpecGroup
MaxGroupStates == 3
\* number of burn times of the enumerated design space of Spec
MaxTimes == 3
\* number of generate_run calls and of restarts, together, in a history of Spec
MaxOps == 3
\* number of generate_run calls and of restarts, together, in a history of SpecReplay
MaxReplayOps == 5
\* number of generate calls each concurrent caller makes in SpecConcurrent
MaxCallerCalls == 2
\* longest list of per-step materials handed to the writer in SpecWriter
MaxWriteSteps == 3

VARIABLES
    session,        \* which process run this is: 1, 2, ...
    rc_states,      \* rc.states: the flat input sequence of States
    runs,           \* execute's local list `runs` while grouping
    gi,             \* number of input States the grouping loop has consumed
    rc_runs,        \* rc.runs as line 136 set it (empty before)
    exec_result,    \* execute: "not_called", "grouped" (line 136 done), "returned",
                    \* or the name of the exception that ended it
    written,        \* writer.write calls made by execute: <<run_num, libs>> each
    statelibs,      \* OpenMCOrigen.statelibs: State -> (k, phi_g, xs)
    fuel_material,  \* rc.fuel_material, the mutable current fuel composition
    disk,           \* statepoint artifacts on disk, keyed by omc working directory
    pc,             \* position inside the active generate_run call, "idle" if none
    cur,            \* locals of the active generate_run call
    calls,          \* history: the run passed to each generate_run call
    results,        \* history: how each generate_run call ended
    log,            \* history: one entry per solver stage invocation
    setup_state,    \* rc.solver, how setup ended in this session, and rc.engine
    cleaned,        \* history: the sessions whose setup removed the build directory
    starts,         \* history: statelibs as it was when each generate_run call began
    budget,         \* how many generate_run calls and restarts the history may hold
    wr,             \* BrightliteWriter.write: its input and the locals of its loop
    thr             \* concurrent callers of generate: where each is, and its locals

vars == <<session, rc_states, runs, gi, rc_runs, exec_result, written, statelibs,
          fuel_material, disk, pc, cur, calls, results, log, setup_state, cleaned,
          starts, budget, wr, thr>>

\* ------------------------------------------------------------------ State
\* State._fields: the perturbation parameters, in schema order
Fields == <<"enrichment", "flux", "burn_times">>

Enrichments == {4, 5}
Fluxes == {1, 2}
BurnTimes == {0, 100, 200}
TimeStep == CHOOSE t \in BurnTimes : t > 0 /\ \A u \in BurnTimes : u > 0 => t <= u

\* every State of the schema over the small parameter grids
AllStates == {<<e, f, t>> : e \in Enrichments, f \in Fluxes, t \in BurnTimes}

\* States of another schema, one parameter fewer
ShortFields == <<"enrichment", "burn_times">>
ShortStates == {<<e, t>> : e \in {4}, t \in {0, 100}}

\* state._fields
FieldsOf(state) == IF Len(state) = Len(Fields) THEN Fields ELSE ShortFields

Range(s) == {s[i] : i \in 1..Len(s)}

\* state.burn_times: the field named burn_times
burn_times(state) ==
    state[CHOOSE i \in 1..Len(state) : FieldsOf(state)[i] = "burn_times"]

\* an arity test that only notices a first State longer than the second
ArityMismatchGreater(state1, state2) == Len(state1) > Len(state2)

\* same_except_burnup_time line 105: the test that raises ValueError
ArityMismatch(state1, state2) == Len(state1) # Len(state2)

\* The loop of same_except_burnup_time from index `index` on: skip the
\* burn_times field, return False at the first differing field, True at the end.
RECURSIVE same_from(_, _, _)
same_from(state1, state2, index) ==
    IF index > Len(state1) THEN TRUE
    ELSE IF FieldsOf(state1)[index] = "burn_times" THEN same_from(state1, state2, index + 1)
    ELSE IF state1[index] # state2[index] THEN FALSE
    ELSE same_from(state1, state2, index + 1)

\* same_except_burnup_time with the skip of burn_times left out: every field,
\* the burn time included, is compared.
same_except_nothing(state1, state2) ==
    \A index \in 1..Len(state1) : state1[index] = state2[index]

same_except_burnup_time(state1, state2) ==
    same_from(state1, state2, 1)

\* One iteration of the outer loop of execute (lines 129-135): the state is
\* appended to every run whose first member matches (the inner loop has no
\* break), and opens a new run when none matched.
GroupStateNoFlag(rs, state) ==
    Append([r \in 1..Len(rs) |->
               IF same_except_burnup_time(rs[r][1], state)
               THEN Append(rs[r], state) ELSE rs[r]],
           <<state>>)

\* a grouper that puts the newest first: a matching State goes to the head of
\* its run, a new run to the head of the list
GroupStateNewestFirst(rs, state) ==
    LET appended == [r \in 1..Len(rs) |->
                        IF same_except_burnup_time(rs[r][1], state)
                        THEN <<state>> \o rs[r] ELSE rs[r]]
        already_existed == \E r \in 1..Len(rs) :
                               same_except_burnup_time(rs[r][1], state)
    IN  IF already_existed THEN appended ELSE <<<<state>>>> \o appended

GroupState(rs, state) ==
    LET appended == [r \in 1..Len(rs) |->
                        IF same_except_burnup_time(rs[r][1], state)
                        THEN Append(rs[r], state) ELSE rs[r]]
        already_existed == \E r \in 1..Len(rs) :
                               same_except_burnup_time(rs[r][1], state)
    IN  IF already_existed THEN appended ELSE Append(appended, <<state>>)

\* The inner loop (lines 130-131) calls same_except_burnup_time on the first
\* member of every run: the iteration raises if one of them has another arity.
GroupRaises(rs, state) ==
    \E r \in 1..Len(rs) : ArityMismatch(rs[r][1], state)

\* whether the grouping loop, continued from state i with runs rs, raises
RECURSIVE GroupRaisesFrom(_, _, _)
GroupRaisesFrom(rs, states, i) ==
    IF i > Len(states) THEN FALSE
    ELSE IF GroupRaises(rs, states[i]) THEN TRUE
    ELSE GroupRaisesFrom(GroupState(rs, states[i]), states, i + 1)

\* The whole grouping loop of execute (lines 127-135) over a sequence of States.
RECURSIVE GroupFrom(_, _, _)
GroupFrom(rs, states, i) ==
    IF i > Len(states) THEN rs
    ELSE GroupFrom(GroupState(rs, states[i]), states, i + 1)

Group(states) == GroupFrom(<<>>, states, 1)

SeqsUpTo(S, n) == UNION {[1..k -> S] : k \in 0..n}

\* SOLVER_ENGINES (buk.py line 21) and the values rc.solver is given
SolverEngines == {"openmc+origen"}
SolverSettings == {"openmc+origen", "NotSpecified", "serpent"}

\* ------------------------------------------------------- solver stand-ins
\* The design's initial fuel loading, rc.fuel_material before any solve:
\* nuclide X at mass fraction 1.0.
InitialFuel == "X" :> 10000

\* generate_run calls and restarts so far
Ops == Len(calls) + (session - 1)

\* BrightliteWriter.write has not been called.
NoWrite == [rows |-> {}, material |-> <<>>, threshold |-> 0, pc |-> "idle", i |-> 0,
            trans_matrix |-> <<>>, err |-> "none"]

\* The callers that may be inside generate at the same time, and a caller that
\* is outside generate and has made no call yet.
Callers == {1, 2}
NoGenerate == [pc |-> "idle", state |-> <<>>, transmute_time |-> 0,
               fuel_in |-> <<>>, res |-> <<>>, ncalls |-> 0]

\* No generate_run call is active.
NoCall == [run |-> <<>>, i |-> 0, transmute_time |-> 0, mat_hist |-> <<>>,
           run_lib |-> <<>>]

\* pwd(state, directory): one working directory per hash(state)
pwd(state, directory) == <<"build", state, directory>>

\* What the external transport solver leaves in the working directory: a
\* statepoint determined by the inputs written for it (the State's context and
\* the fuel composition of materials.xml).
Statepoint(state, fuel) == [st |-> state, fuel |-> fuel]

\* _parse_statepoint and _generate_xs: (k, phi_g, xs) read off the statepoint.
ParseStatepoint(sp) ==
    LET phi_g == [level |-> sp.st[2], src |-> sp]
    IN  <<1, phi_g, [phi |-> phi_g]>>

\* The deterministic transmutation stand-in: nuclide X loses 1% per TimeStep of
\* irradiation; at flux level 2 the output also lists the daughter Y once more
\* than 1% of the initial X is gone.  A non-positive interval changes nothing.
RECURSIVE Decay(_, _)
Decay(x, k) == IF k = 0 THEN x ELSE Decay((x * 99) \div 100, k - 1)

Transmute(mat, transmute_time, phi_g) ==
    LET k == IF transmute_time > 0 THEN transmute_time \div TimeStep ELSE 0
        x == Decay(mat["X"], k)
        lost == InitialFuel["X"] - x
    IN  IF k = 0 THEN mat
        ELSE IF phi_g.level = 2 /\ lost * 100 > InitialFuel["X"]
             THEN ("X" :> x) @@ ("Y" :> lost)
             ELSE "X" :> x

\* a cache that holds the latest entry only
StoreLatestOnly(libs, state, result) == state :> result

\* generate line 207: self.statelibs[state] = (k, phi_g, xs)
StoreStatelib(libs, state, result) == (state :> result) @@ libs

\* an openmc that does not look for an existing statepoint
StatepointNeverFound(dir) == FALSE

\* _find_statepoint(pwd) is not None (lines 221-222, 362-366)
StatepointFound(dir) == dir \in DOMAIN disk

\* ----------------------------------------------------- generate_run, pieces
\* generate_run lines 178-181: the irradiation interval of step i (1-based)
TransmuteTimeSinceStart(run, i) ==
    burn_times(run[i]) - burn_times(run[1])

TransmuteTimeBackward(run, i) ==
    IF i > 1 THEN burn_times(run[i]) - burn_times(run[i - 1]) ELSE 0

TransmuteTime(run, i) ==
    IF i < Len(run)
    THEN burn_times(run[i + 1]) - burn_times(run[i])
    ELSE 0

\* generate line 204: is the State already in the cache?
CacheNeverHit(state) == FALSE

CacheHit(state) == state \in DOMAIN statelibs

\* generate line 208: rc.fuel_material is rebound to what origen returned
KeepFuelMaterial(old, out) == old

NextFuelMaterial(old, out) == out

\* generate_run lines 188-193: the nuclides of every material of the history
HistoryNucs(mat_hist) == UNION {DOMAIN mat_hist[j] : j \in 1..Len(mat_hist)}

\* line 192 looks every nuclide up in every material: a KeyError when one lacks it
HistoryComplete(mat_hist) ==
    \A j \in 1..Len(mat_hist) : DOMAIN mat_hist[j] = HistoryNucs(mat_hist)

\* generate_run lines 192-195: run_lib updated with one history per nuclide
AssembleLib(run_lib, mat_hist) ==
    [nuc \in HistoryNucs(mat_hist) |->
        [j \in 1..Len(mat_hist) |-> mat_hist[j][nuc]]] @@ run_lib

EmptyRunLib ==
    [row \in {"TIME", "NEUT_PROD", "NEUT_DEST", "BUd"} |-> <<>>]

\* `ran` tells whether an external solver process was started, `recv` what
\* the stage was handed by generate besides the State and the interval.
LogEntry(stage, ran, ok, out) ==
    [session |-> session, call |-> Len(calls), step |-> cur.i, stage |-> stage,
     state |-> cur.run[cur.i], dt |-> cur.transmute_time,
     fuel_in |-> fuel_material, recv |-> <<>>, ran |-> ran, ok |-> ok, out |-> out]

\* a generate that hands origen the transport result of the run's first State
StaleTransportResult(state) == statelibs[cur.run[1]]

\* generate lines 206-207: the locals k, phi_g, xs after openmc returned, which
\* are the entry just stored for the State
TransportResult(state) == statelibs[state]

\* Raise as it would be were the solver call wrapped in a try/except that goes
\* on with the next step.
RaiseSwallowed(err) ==
    IF pc = "assemble"
    THEN /\ results' = Append(results, [kind |-> "error", err |-> err, step |-> cur.i])
         /\ pc' = "idle"
         /\ cur' = NoCall
    ELSE /\ cur' = [cur EXCEPT !.i = @ + 1]
         /\ pc' = IF cur.i < Len(cur.run) THEN "loop" ELSE "assemble"
         /\ UNCHANGED results

\* An exception leaves generate_run: nothing catches it, the call ends without
\* a library and its locals are gone.
Raise(err) ==
    /\ results' = Append(results, [kind |-> "error", err |-> err, step |-> cur.i])
    /\ pc' = "idle"
    /\ cur' = NoCall

\* ---------------------------------------------------------------- actions
\* After construction: OpenMCOrigen.__init__ (statelibs = {}), rc as loaded.
InitCommon ==
    /\ session = 1
    /\ runs = <<>>
    /\ gi = 0
    /\ rc_runs = <<>>
    /\ exec_result = "not_called"
    /\ written = <<>>
    /\ statelibs = <<>>
    /\ fuel_material = InitialFuel
    /\ disk = <<>>
    /\ pc = "idle"
    /\ cur = NoCall
    /\ calls = <<>>
    /\ results = <<>>
    /\ log = <<>>
    /\ setup_state = [solver |-> "openmc+origen", result |-> "ok",
                      engine |-> "OpenMCOrigen"]
    /\ cleaned = {}
    /\ starts = <<>>
    /\ thr = [t \in Callers |-> NoGenerate]

\* The design-space enumerator: the product of the perturbed parameter lists,
\* burn times ascending and varying fastest.
Enumerate(enrichments, flux, ntimes) ==
    [j \in 1..(Len(enrichments) * ntimes) |->
        <<enrichments[((j - 1) \div ntimes) + 1], flux, ((j - 1) % ntimes) * TimeStep>>]

Init ==
    /\ rc_states \in {Enumerate(es, f, n) :
                        es \in {<<>>, <<4>>, <<4, 5>>}, f \in Fluxes, n \in 1..MaxTimes}
                    \cup {<<s, t>> : s \in {<<4, 1, 0>>}, t \in ShortStates}
    /\ budget = MaxOps
    /\ wr = NoWrite
    /\ InitCommon

\* setup lines 85-87: the exception setup ends with, "ok" if none
SetupResult(solver) ==
    IF solver = "NotSpecified" THEN "ValueError"
    ELSE IF solver \notin SolverEngines THEN "KeyError"
    ELSE "ok"

\* setup with the engine built before the solver setting is looked at
SetupEngineFirst(solver) == "OpenMCOrigen"

\* setup lines 85-87: rc.engine after setup, "none" when line 87 did not complete
SetupEngine(solver) ==
    IF SetupResult(solver) = "ok" THEN "OpenMCOrigen" ELSE "none"

\* A new process is started on the same working tree and set up: setup (buk.py
\* lines 82-90) builds a fresh engine (statelibs = {}, line 146) from a freshly
\* loaded rc, and removes the build directory when rc.clean is set.
\* With rc.solver NotSpecified line 86 raises before line 87 creates the engine;
\* a solver name SOLVER_ENGINES does not hold is a KeyError at line 87.  Either
\* way lines 88-90 are not reached and nothing is removed.
Setup(clean, solver) ==
    /\ pc = "idle"
    /\ Ops < budget
    /\ session' = session + 1
    /\ setup_state' = [solver |-> solver, result |-> SetupResult(solver),
                       engine |-> SetupEngine(solver)]
    /\ statelibs' = <<>>
    /\ fuel_material' = InitialFuel
    /\ disk' = IF clean /\ SetupResult(solver) = "ok" THEN <<>> ELSE disk
    /\ cleaned' = IF clean /\ SetupResult(solver) = "ok"
                  THEN cleaned \cup {session'} ELSE cleaned
    /\ runs' = <<>>
    /\ gi' = 0
    /\ rc_runs' = <<>>
    /\ exec_result' = "not_called"
    /\ UNCHANGED <<rc_states, written, pc, cur, calls, results, log, starts, budget, wr,
                   thr>>

\* execute, whole.  Lines 127-136 group rc.states into rc.runs, unless a
\* comparison raises ValueError (line 106), which ends execute.  Line 141 then
\* calls generate_run(run, fname) for the first run, but generate_run takes the
\* run alone (line 174): a TypeError ends execute before any solve and before
\* any writer.  With no run the loop body never runs and execute returns.
Execute ==
    /\ pc = "idle"
    /\ setup_state.result = "ok"
    /\ exec_result = "not_called"
    /\ UNCHANGED <<setup_state, cleaned, starts, budget, wr, thr>>
    /\ IF GroupRaisesFrom(<<>>, rc_states, 1)
       THEN /\ exec_result' = "ValueError"
            /\ UNCHANGED <<runs, gi, rc_runs>>
       ELSE /\ runs' = Group(rc_states)
            /\ gi' = Len(rc_states)
            /\ rc_runs' = runs'
            /\ exec_result' = IF Len(runs') = 0 THEN "returned" ELSE "TypeError"
    /\ UNCHANGED <<session, rc_states, written, statelibs, fuel_material, disk, pc, cur,
                   calls, results, log>>

\* A caller passes one of rc.runs to generate_run (lines 174-176).
CallGenerateRun(n) ==
    /\ pc = "idle"
    /\ setup_state.result = "ok"
    /\ Ops < budget
    /\ starts' = Append(starts, statelibs)
    /\ UNCHANGED <<setup_state, cleaned, budget, wr, thr>>
    /\ n \in 1..Len(rc_runs)
    /\ calls' = Append(calls, rc_runs[n])
    /\ cur' = [run |-> rc_runs[n], i |-> 1, transmute_time |-> 0,
               mat_hist |-> <<>>, run_lib |-> EmptyRunLib]
    /\ pc' = IF Len(rc_runs[n]) = 0 THEN "assemble" ELSE "loop"
    /\ UNCHANGED <<session, rc_states, runs, gi, rc_runs, exec_result, written, statelibs,
                   fuel_material, disk, results, log>>

\* Head of the loop (lines 177-182) and the cache lookup of generate (204-205).
\* On a hit generate returns the stored (k, phi_g, xs); line 182 unpacks four
\* values from it, a ValueError.
GenerateLookup ==
    /\ UNCHANGED <<setup_state, cleaned, starts, budget, wr, thr>>
    /\ pc = "loop"
    /\ LET state == cur.run[cur.i]
           tt == TransmuteTime(cur.run, cur.i)
           entered == [cur EXCEPT !.transmute_time = tt]
       IN  IF CacheHit(state)
           THEN /\ log' = Append(log, [LogEntry("cache", FALSE, TRUE, statelibs[state])
                                         EXCEPT !.dt = tt])
                /\ Raise("ValueError")
           ELSE /\ cur' = entered
                /\ pc' = "omc"
                /\ UNCHANGED <<results, log>>
    /\ UNCHANGED <<session, rc_states, runs, gi, rc_runs, exec_result, written, statelibs,
                   fuel_material, disk, calls>>

\* generate lines 206-207 with openmc (213-229): the inputs are written from
\* the State and rc.fuel_material; the solver process runs only if the working
\* directory holds no statepoint; the parsed result is stored in statelibs.
Openmc(ok) ==
    /\ UNCHANGED <<setup_state, cleaned, starts, budget, wr, thr>>
    /\ pc = "omc"
    /\ LET state == cur.run[cur.i]
           dir == pwd(state, "omc")
           found == StatepointFound(dir)
           sp == IF found THEN disk[dir] ELSE Statepoint(state, fuel_material)
       IN  IF found \/ ok
           THEN /\ disk' = (dir :> sp) @@ disk
                /\ statelibs' = StoreStatelib(statelibs, state, ParseStatepoint(sp))
                /\ log' = Append(log, LogEntry("omc", ~found, TRUE, ParseStatepoint(sp)))
                /\ pc' = "origen"
                /\ UNCHANGED <<cur, results>>
           ELSE /\ log' = Append(log, LogEntry("omc", TRUE, FALSE, <<>>))
                /\ Raise("CalledProcessError")
                /\ UNCHANGED <<disk, statelibs>>
    /\ UNCHANGED <<session, rc_states, runs, gi, rc_runs, exec_result, written,
                   fuel_material, calls>>

\* generate lines 208-211 with origen (320-351), then lines 183-187 of
\* generate_run: origen is handed xs, the interval and phi_g (it reads phi_g
\* only); the transmutation solver runs on rc.fuel_material for the interval,
\* rc.fuel_material becomes its output, and the step is recorded.
Origen(ok) ==
    /\ UNCHANGED <<setup_state, cleaned, starts, budget, wr, thr>>
    /\ pc = "origen"
    /\ LET state == cur.run[cur.i]
           xs == TransportResult(state)[3]
           phi_g == TransportResult(state)[2]
           out == Transmute(fuel_material, cur.transmute_time, phi_g)
           mat == NextFuelMaterial(fuel_material, out)
       IN  IF ok
           THEN /\ fuel_material' = mat
                /\ log' = Append(log, [LogEntry("origen", TRUE, TRUE, out)
                                         EXCEPT !.recv = <<xs, phi_g>>])
                /\ cur' = [cur EXCEPT
                     !.i = @ + 1,
                     !.mat_hist = Append(@, mat),
                     !.run_lib = [row \in DOMAIN @ |->
                         Append(@[row], IF row = "TIME" THEN burn_times(state) ELSE 0)]]
                /\ pc' = IF cur.i < Len(cur.run) THEN "loop" ELSE "assemble"
                /\ UNCHANGED results
           ELSE /\ log' = Append(log, [LogEntry("origen", TRUE, FALSE, <<>>)
                                         EXCEPT !.recv = <<xs, phi_g>>])
                /\ Raise("CalledProcessError")
                /\ UNCHANGED fuel_material
    /\ UNCHANGED <<session, rc_states, runs, gi, rc_runs, exec_result, written, statelibs,
                   disk, calls>>

\* generate_run lines 188-197: the nuclide histories are added and the library
\* is returned; a nuclide missing from one of the materials is a KeyError.
Assemble ==
    /\ UNCHANGED <<setup_state, cleaned, starts, budget, wr, thr>>
    /\ pc = "assemble"
    /\ IF HistoryComplete(cur.mat_hist)
       THEN /\ results' = Append(results,
                    [kind |-> "lib", lib |-> AssembleLib(cur.run_lib, cur.mat_hist)])
            /\ pc' = "idle"
            /\ cur' = NoCall
       ELSE Raise("KeyError")
    /\ UNCHANGED <<session, rc_states, runs, gi, rc_runs, exec_result, written, statelibs,
                   fuel_material, disk, calls, log>>

Next ==
    \/ \E clean \in BOOLEAN, solver \in SolverSettings : Setup(clean, solver)
    \/ Execute
    \/ \E n \in 1..Len(rc_runs) : CallGenerateRun(n)
    \/ GenerateLookup
    \/ \E ok \in BOOLEAN : Openmc(ok)
    \/ \E ok \in BOOLEAN : Origen(ok)
    \/ Assemble

Spec == Init /\ [][Next]_vars

\* ----------------------------------------------------------- SpecReplay
\* The same engine on one design space of two runs of two burn times each,
\* followed over longer histories of calls and restarts.
InitReplay ==
    /\ rc_states = Enumerate(<<4, 5>>, 1, 2)
    /\ budget = MaxReplayOps
    /\ wr = NoWrite
    /\ InitCommon

SpecReplay == InitReplay /\ [][Next]_vars

\* ------------------------------------------------------------ SpecGroup
InitGroup ==
    /\ rc_states \in SeqsUpTo(AllStates \cup ShortStates, MaxGroupStates)
    /\ budget = MaxOps
    /\ wr = NoWrite
    /\ InitCommon

\* One iteration of the outer loop of execute, lines 128-135.  When a
\* comparison raises (line 106) execute ends there and rc.runs is never set.
GroupStep ==
    /\ UNCHANGED <<setup_state, cleaned, starts, budget, wr, thr>>
    /\ exec_result = "not_called"
    /\ gi < Len(rc_states)
    /\ IF GroupRaises(runs, rc_states[gi + 1])
       THEN /\ exec_result' = "ValueError"
            /\ UNCHANGED <<runs, gi>>
       ELSE /\ runs' = GroupState(runs, rc_states[gi + 1])
            /\ gi' = gi + 1
            /\ UNCHANGED exec_result
    /\ UNCHANGED <<session, rc_states, rc_runs, written, statelibs,
                   fuel_material, disk, pc, cur, calls, results, log>>

\* Line 136: rc.runs = runs.
GroupAssign ==
    /\ UNCHANGED <<setup_state, cleaned, starts, budget, wr, thr>>
    /\ exec_result = "not_called"
    /\ gi = Len(rc_states)
    /\ rc_runs' = runs
    /\ exec_result' = "grouped"
    /\ UNCHANGED <<session, rc_states, runs, gi, written, statelibs, fuel_material, disk,
                   pc, cur, calls, results, log>>

NextGroup == GroupStep \/ GroupAssign

SpecGroup == InitGroup /\ [][NextGroup]_vars

\* --------------------------------------------------------- SpecConcurrent
\* Two callers share one OpenMCOrigen instance and call generate on it, each
\* from its own thread.  generate takes no lock and keeps no record of a solve
\* in flight, so a caller can be pre-empted between any two of its statements;
\* the steps below are the statements that read or write what the callers
\* share (statelibs, rc.fuel_material, the working directory).
ConcStates == {<<4, 1, 0>>, <<4, 1, 100>>}

InitConcurrent ==
    /\ rc_states = <<>>
    /\ budget = MaxOps
    /\ wr = NoWrite
    /\ InitCommon

ConcurrentIdle ==
    UNCHANGED <<session, rc_states, runs, gi, rc_runs, exec_result, written, pc, cur,
                calls, results, log, setup_state, cleaned, starts, budget, wr>>

\* the caller leaves generate, by return or by exception
Leave(t) == [NoGenerate EXCEPT !.ncalls = thr[t].ncalls + 1]

\* generate lines 204-205: the look-up; a hit returns the stored entry
ConcLookup(t, state, transmute_time) ==
    /\ thr[t].pc = "idle"
    /\ thr[t].ncalls < MaxCallerCalls
    /\ thr' = [thr EXCEPT ![t] =
                  IF CacheHit(state)
                  THEN Leave(t)
                  ELSE [@ EXCEPT !.pc = "openmc", !.state = state,
                                 !.transmute_time = transmute_time]]
    /\ UNCHANGED <<statelibs, fuel_material, disk>>
    /\ ConcurrentIdle

\* openmc lines 216-221: the inputs are written from rc.fuel_material and the
\* working directory is searched for a statepoint
ConcOpenmcInputs(t) ==
    /\ thr[t].pc = "openmc"
    /\ thr' = [thr EXCEPT ![t] =
                  [@ EXCEPT !.fuel_in = fuel_material,
                            !.pc = IF StatepointFound(pwd(thr[t].state, "omc"))
                                   THEN "parse" ELSE "run"]]
    /\ UNCHANGED <<statelibs, fuel_material, disk>>
    /\ ConcurrentIdle

\* openmc lines 222-225: the solver process runs in the working directory and
\* leaves its statepoint there, or fails
ConcOpenmcRun(t, ok) ==
    /\ thr[t].pc = "run"
    /\ IF ok
       THEN /\ disk' = (pwd(thr[t].state, "omc") :>
                            Statepoint(thr[t].state, thr[t].fuel_in)) @@ disk
            /\ thr' = [thr EXCEPT ![t] = [@ EXCEPT !.pc = "parse"]]
       ELSE /\ thr' = [thr EXCEPT ![t] = Leave(t)]
            /\ UNCHANGED disk
    /\ UNCHANGED <<statelibs, fuel_material>>
    /\ ConcurrentIdle

\* openmc lines 226-229 and generate line 207: the statepoint is parsed and
\* the result stored
ConcStore(t) ==
    /\ thr[t].pc = "parse"
    /\ LET res == ParseStatepoint(disk[pwd(thr[t].state, "omc")])
       IN  /\ statelibs' = StoreStatelib(statelibs, thr[t].state, res)
           /\ thr' = [thr EXCEPT ![t] = [@ EXCEPT !.pc = "origen", !.res = res]]
    /\ UNCHANGED <<fuel_material, disk>>
    /\ ConcurrentIdle

\* generate lines 208-211 with origen: rc.fuel_material is read, transmuted
\* and rebound, or the solver fails
ConcOrigen(t, ok) ==
    /\ thr[t].pc = "origen"
    /\ fuel_material' =
           IF ok
           THEN NextFuelMaterial(fuel_material,
                    Transmute(fuel_material, thr[t].transmute_time, thr[t].res[2]))
           ELSE fuel_material
    /\ thr' = [thr EXCEPT ![t] = Leave(t)]
    /\ UNCHANGED <<statelibs, disk>>
    /\ ConcurrentIdle

NextConcurrent ==
    \E t \in Callers :
        \/ \E state \in ConcStates, transmute_time \in {0, TimeStep} :
               ConcLookup(t, state, transmute_time)
        \/ ConcOpenmcInputs(t)
        \/ \E ok \in BOOLEAN : ConcOpenmcRun(t, ok)
        \/ ConcStore(t)
        \/ \E ok \in BOOLEAN : ConcOrigen(t, ok)

SpecConcurrent == InitConcurrent /\ [][NextConcurrent]_vars

\* ------------------------------------------------ BrightliteWriter.write
\* The writer is handed one material library: the scalar rows it holds, its
\* list of per-step materials, and rc.track_nuc_threshold.  A material maps
\* the nuclides it holds to their fractions; the keys stand for the nuclide
\* ids and for the names nucname.name gives them, one name per id.
rownames == {"TIME", "phi_tot", "NEUT_PROD", "NEUT_DEST", "BUd"}

\* the rows of the library generate_run assembles (openmc_origen.py line 176)
RunLibRows == DOMAIN EmptyRunLib

WriterNucs == {"X", "Y"}
WriterFractions == {1, 5}
WriterThresholds == {0, 3}
WriterMaterials == UNION {[S -> WriterFractions] : S \in SUBSET WriterNucs}

\* a new table row that forgets the steps before the nuclide was retained
zero_array_empty(i) == <<>>

\* line 48: [0]*i
zero_array(i) == [j \in 1..i |-> 0]

\* lines 43-50, one pass of the for loop over material[i].comp (i counts from
\* 0): a nuclide that has a row gets its value appended; one that has none
\* gets a row only if its fraction is above the threshold.  The nuclides of a
\* material are handled independently, so their order has no effect.
TransMatrixStep(trans_matrix, mat, i, threshold) ==
    LET kept == DOMAIN trans_matrix
        new  == {nuc \in DOMAIN mat \ kept : mat[nuc] > threshold}
    IN  [nuc \in kept \cup new |->
            IF nuc \in kept
            THEN IF nuc \in DOMAIN mat
                 THEN Append(trans_matrix[nuc], mat[nuc] * 1000)
                 ELSE trans_matrix[nuc]
            ELSE Append(zero_array(i), mat[nuc] * 1000)]

InitWriter ==
    /\ rc_states = <<>>
    /\ budget = MaxOps
    /\ \E rows \in {rownames, RunLibRows},
          material \in SeqsUpTo(WriterMaterials, MaxWriteSteps),
          threshold \in WriterThresholds :
            wr = [rows |-> rows, material |-> material, threshold |-> threshold,
                  pc |-> "lines", i |-> 0, trans_matrix |-> <<>>, err |-> "none"]
    /\ InitCommon

WriterIdle ==
    UNCHANGED <<session, rc_states, runs, gi, rc_runs, exec_result, written,
                statelibs, fuel_material, disk, pc, cur, calls, results, log,
                setup_state, cleaned, starts, budget, thr>>

\* lines 37-41: the scalar rows are read out of the library, one per row name
WriteLines ==
    /\ wr.pc = "lines"
    /\ wr' = IF rownames \subseteq wr.rows
             THEN [wr EXCEPT !.pc = "loop"]
             ELSE [wr EXCEPT !.pc = "done", !.err = "KeyError"]
    /\ WriterIdle

\* lines 42-51: one pass of the while loop
WriteStep ==
    /\ wr.pc = "loop"
    /\ wr.i < Len(wr.material)
    /\ wr' = [wr EXCEPT !.trans_matrix = TransMatrixStep(wr.trans_matrix,
                                              wr.material[wr.i + 1], wr.i, wr.threshold),
                        !.i = wr.i + 1]
    /\ WriterIdle

\* lines 42, 53-57: the loop is left and the table is written out
WriteTable ==
    /\ wr.pc = "loop"
    /\ wr.i = Len(wr.material)
    /\ wr' = [wr EXCEPT !.pc = "done"]
    /\ WriterIdle

NextWriter == WriteLines \/ WriteStep \/ WriteTable

SpecWriter == InitWriter /\ [][NextWriter]_vars

\* ------------------------------------------------------------- properties
\* the multiset of the members of a sequence
SeqToBag(s) == [x \in Range(s) |-> Cardinality({i \in 1..Len(s) : s[i] = x})]

\* the multiset union of the runs r, r+1, ... of rs
RECURSIVE RunsToBag(_, _)
RunsToBag(rs, r) ==
    IF r > Len(rs) THEN EmptyBag ELSE SeqToBag(rs[r]) (+) RunsToBag(rs, r + 1)

\* equal on every field other than burn_times
NonTimeEqual(a, b) ==
    /\ Len(a) = Len(b)
    /\ \A i \in 1..Len(a) : FieldsOf(a)[i] # "burn_times" => a[i] = b[i]

InSameRun(rs, a, b) ==
    \E r \in 1..Len(rs) : a \in Range(rs[r]) /\ b \in Range(rs[r])

\* C1: the runs are a partition of the input.  After every iteration of the
\* grouping loop the multiset union of the runs is the multiset of the States
\* consumed so far, and rc.runs holds exactly the multiset of rc.states.
C1_GroupingIsPartition ==
    /\ RunsToBag(runs, 1) = SeqToBag(SubSeq(rc_states, 1, gi))
    /\ exec_result = "grouped" => RunsToBag(rc_runs, 1) = SeqToBag(rc_states)

\* C1 witness: three States were grouped into two runs, one of them of two.
C1_Witness ==
    /\ exec_result = "grouped"
    /\ Len(rc_states) = 3
    /\ Len(rc_runs) = 2
    /\ \E r \in 1..2 : Len(rc_runs[r]) = 2

\* C2: once grouped, two input States share a run exactly when they agree on
\* every field but burn_times, wherever they stand in the input; and no two
\* runs have first members with the same non-time values.
C2_SameRunIffNonTimeEqual ==
    exec_result = "grouped" =>
        /\ \A a, b \in Range(rc_states) :
               InSameRun(rc_runs, a, b) <=> NonTimeEqual(a, b)
        /\ \A r1, r2 \in 1..Len(rc_runs) :
               r1 # r2 => ~NonTimeEqual(rc_runs[r1][1], rc_runs[r2][1])

\* C2 witness: two States that differ only in burn time stand apart in the
\* input, with a State of another run between them, and share a run.
C2_Witness ==
    /\ exec_result = "grouped"
    /\ Len(rc_states) = 3
    /\ NonTimeEqual(rc_states[1], rc_states[3])
    /\ burn_times(rc_states[1]) # burn_times(rc_states[3])
    /\ ~NonTimeEqual(rc_states[1], rc_states[2])
    /\ InSameRun(rc_runs, rc_states[1], rc_states[3])
    /\ ~InSameRun(rc_runs, rc_states[1], rc_states[2])

\* the irradiation interval the run prescribes for step i (1-based)
ForwardInterval(run, i) ==
    IF i = Len(run) THEN 0 ELSE burn_times(run[i + 1]) - burn_times(run[i])

LogIdx == 1..Len(log)

\* C3 as stated: of two generate calls on one instance for equal States (each
\* call starts with a cache look-up that hits, or with the transport stage),
\* the second is answered from the cache, so that the two calls together run
\* the pipeline once.
C3_SecondCallIsCacheHit ==
    \A p, q \in LogIdx :
        (/\ p < q
         /\ log[p].session = log[q].session
         /\ log[p].state = log[q].state
         /\ log[p].stage \in {"cache", "omc"}
         /\ log[q].stage \in {"cache", "omc"})
        => log[q].stage = "cache"

\* C3, amended: once a generate call for a State got its transport result, that State is
\* never solved again on this instance (in this session): the only stage entry after it is the
\* transmutation stage of the same call, and every later generate call for an
\* equal State is answered from statelibs with the result stored then.
C3_SecondGenerateNotSolved ==
    \A p, q \in LogIdx :
        (/\ p < q
         /\ log[p].session = log[q].session
         /\ log[p].state = log[q].state
         /\ log[p].stage = "omc" /\ log[p].ok)
        => \/ /\ q = p + 1
              /\ log[q].stage = "origen"
              /\ log[q].call = log[p].call
              /\ log[q].step = log[p].step
           \/ /\ log[q].stage = "cache"
              /\ log[q].out = log[p].out

\* C3 witness: a State went through both stages, and a later generate call for
\* it was answered from the cache.
C3_Witness ==
    \E p, q \in LogIdx :
        /\ p + 1 < q
        /\ log[p].stage = "omc" /\ log[p].ok
        /\ log[p + 1].stage = "origen" /\ log[p + 1].ok
        /\ log[q].stage = "cache"
        /\ log[q].state = log[p].state
        /\ log[q].session = log[p].session

\* C4: the interval handed to generate at step i of a run is
\* burn_times[i+1] - burn_times[i], and 0 at the last step.
C4_IntervalIsForwardDifference ==
    /\ \A p \in LogIdx :
           log[p].dt = ForwardInterval(calls[log[p].call], log[p].step)
    /\ pc \in {"omc", "origen"} =>
           cur.transmute_time = ForwardInterval(cur.run, cur.i)

\* C4 witness: a run of three States was solved to its last step, with a
\* positive interval at step 1 and the interval 0 at step 3.
C4_Witness ==
    \E p, q \in LogIdx :
        /\ log[p].call = log[q].call
        /\ Len(calls[log[p].call]) = 3
        /\ log[p].stage = "origen" /\ log[p].step = 1 /\ log[p].dt > 0
        /\ log[q].stage = "origen" /\ log[q].step = 3 /\ log[q].dt = 0

\* C5: within one run, whatever is done for step i+1 (the transport input, the
\* transmutation input) uses as fuel the material the transmutation stage
\* returned for step i.
C5_MaterialThreadedForward ==
    \A p, q \in LogIdx :
        (/\ log[p].call = log[q].call
         /\ log[q].step = log[p].step + 1
         /\ log[p].stage = "origen" /\ log[p].ok)
        => log[q].fuel_in = log[p].out

\* C5 witness: the transmutation of a step changed the material, and both
\* stages of the next step ran.
C5_Witness ==
    \E p, q \in LogIdx :
        /\ log[p].call = log[q].call
        /\ log[q].step = log[p].step + 1
        /\ log[p].stage = "origen" /\ log[p].ok
        /\ log[p].out # log[p].fuel_in
        /\ log[q].stage = "origen" /\ log[q].ok

\* C6 as claimed: the first step of every run, of later runs too, is solved on
\* the design's initial fuel loading.
C6_FirstStepUsesInitialFuel ==
    \A p \in LogIdx :
        (log[p].step = 1 /\ log[p].stage \in {"omc", "origen"})
        => log[p].fuel_in = InitialFuel

\* C7 as claimed: in the library of a run built from the initial material at
\* flux level 1, with burn times 0, TimeStep, 2*TimeStep, ..., the X history at
\* step i is the 1% loss applied i-1 times to the initial fraction
\* (10000, 9900, 9801 for three States).
C7_HistoryIsCompositionAtStateTime ==
    \A c \in 1..Len(results) :
        (/\ c = 1
         /\ results[c].kind = "lib"
         /\ \A i \in 1..Len(calls[c]) :
                /\ burn_times(calls[c][i]) = (i - 1) * TimeStep
                /\ calls[c][i][2] = 1)
        => \A i \in 1..Len(calls[c]) :
               results[c].lib["X"][i] = Decay(InitialFuel["X"], i - 1)

\* C8: a failed transport solve at step j ends the run's build with that error:
\* nothing more is solved in that call, the call ends without a library, and no
\* writer gets a library for that run.
C8_TransportFailureAbortsRun ==
    \A p \in LogIdx :
        (log[p].stage = "omc" /\ ~log[p].ok)
        => LET c == log[p].call
           IN  /\ \A q \in LogIdx : log[q].call = c => q <= p
               /\ Len(results) >= c
               /\ results[c] = [kind |-> "error", err |-> "CalledProcessError",
                                step |-> log[p].step]
               /\ (pc # "idle" => Len(calls) > c)
               /\ \A w \in 1..Len(written) : rc_runs[written[w].run_num] # calls[c]

\* C8 witness: the transport solve failed at step 2 of a run of three States,
\* after step 1 had been solved.
C8_Witness ==
    \E p \in LogIdx :
        /\ p > 1
        /\ log[p].stage = "omc" /\ ~log[p].ok /\ log[p].step = 2
        /\ log[p - 1].call = log[p].call /\ log[p - 1].ok
        /\ Len(calls[log[p].call]) = 3
        /\ pc = "idle"

\* C9 as claimed: a State whose latest solve in this session failed, in either
\* stage, has no entry in statelibs, and the next generate call for it in the
\* session runs the transport stage again.
C9_FailedStateNotCached ==
    \A p \in LogIdx :
        (~log[p].ok /\ log[p].session = session) =>
            /\ (\A q \in LogIdx : q > p => log[q].state # log[p].state)
                   => log[p].state \notin DOMAIN statelibs
            /\ \A q \in LogIdx :
                   (/\ q > p
                    /\ log[q].state = log[p].state
                    /\ \A m \in LogIdx : (p < m /\ m < q) => log[m].state # log[p].state)
                   => log[q].stage = "omc"

\* C10 as claimed: when no solve fails, execute ends normally having handed
\* the library of every run, in index order, to the writers.
C10_ExecuteDeliversEveryRun ==
    (exec_result # "not_called" /\ \A p \in LogIdx : log[p].ok)
    => /\ exec_result = "returned"
       /\ Len(written) = Len(rc_runs)
       /\ \A n \in 1..Len(written) : written[n].run_num = n

\* C11 (writer part): once the writer has gone through all per-step materials,
\* every nuclide row of its table has exactly one entry per step, and the entry
\* at step j is the nuclide's value there (1000 times its fraction) or zero,
\* also for a nuclide some materials hold and others do not.
C11_HistoryHasOneEntryPerStep ==
    wr.pc = "done" /\ wr.err = "none" =>
        \A nuc \in DOMAIN wr.trans_matrix :
            /\ Len(wr.trans_matrix[nuc]) = Len(wr.material)
            /\ \A j \in 1..Len(wr.material) :
                    wr.trans_matrix[nuc][j] \in
                        {0} \cup {wr.material[j][n] * 1000 : n \in {nuc} \cap DOMAIN wr.material[j]}

\* the steps (counted from 1) among the first upto in which the fraction of
\* nuc is above the tracking threshold
ExceedSteps(nuc, upto) ==
    {j \in 1..upto : nuc \in DOMAIN wr.material[j] /\ wr.material[j][nuc] > wr.threshold}

Min(S) == CHOOSE x \in S : \A y \in S : x <= y

\* C12: in the table the writer accumulates, a nuclide whose fraction first
\* exceeds the threshold at step k has zeros for the steps before k and its
\* step-k value (the table holds 1000 times the fraction) at position k; a
\* nuclide that exceeded the threshold at no step so far has no row.
C12_BackFilledFromFirstExceed ==
    \A nuc \in WriterNucs :
        LET E == ExceedSteps(nuc, wr.i)
        IN  IF E = {}
            THEN nuc \notin DOMAIN wr.trans_matrix
            ELSE /\ nuc \in DOMAIN wr.trans_matrix
                 /\ Len(wr.trans_matrix[nuc]) >= Min(E)
                 /\ \A j \in 1..(Min(E) - 1) : wr.trans_matrix[nuc][j] = 0
                 /\ wr.trans_matrix[nuc][Min(E)] = wr.material[Min(E)][nuc] * 1000

\* the writer finished a table in which one nuclide was first retained after
\* the first step, having been below the threshold before, and another was
\* in the materials and never retained
C12_Witness ==
    /\ wr.pc = "done" /\ wr.err = "none"
    /\ \E nuc \in WriterNucs :
            /\ ExceedSteps(nuc, wr.i) # {}
            /\ Min(ExceedSteps(nuc, wr.i)) > 1
            /\ nuc \in DOMAIN wr.material[1]
    /\ \E nuc \in WriterNucs :
            /\ ExceedSteps(nuc, wr.i) = {}
            /\ \E j \in 1..wr.i : nuc \in DOMAIN wr.material[j]

\* C13: two generate_run calls on the same run that began with the same
\* simulation-cache contents and both returned a library returned the same
\* library, whatever was built before either of them.
C13_SameStartSameLibrary ==
    \A c1 \in 1..Len(results) : \A c2 \in 1..Len(results) :
        /\ calls[c1] = calls[c2]
        /\ starts[c1] = starts[c2]
        /\ results[c1].kind = "lib"
        /\ results[c2].kind = "lib"
        => results[c1].lib = results[c2].lib

\* C14: a generate_run call in which some step was a cache hit and no solver
\* stage failed is built to completion: it returns a library with one entry
\* per step of the run, and no stage ran for the State of the cache hit.
C14_CacheHitRunCompletes ==
    \A c \in 1..Len(results) :
        /\ \E p \in LogIdx : log[p].call = c /\ log[p].stage = "cache"
        /\ \A p \in LogIdx : log[p].call = c => log[p].ok
        => /\ results[c].kind = "lib"
           /\ Len(results[c].lib["TIME"]) = Len(calls[c])

\* the input holds two States with different numbers of parameters
MixedArity(states) ==
    \E i, j \in 1..Len(states) : Len(states[i]) # Len(states[j])

\* the position of the first State whose arity differs from an earlier State's
FirstMismatch(states) ==
    Min({j \in 1..Len(states) : \E i \in 1..(j - 1) : Len(states[i]) # Len(states[j])})

\* C15: when the input holds two States of different arity, wherever they
\* stand, the grouping loop gets no further than the first State whose arity
\* differs from an earlier one, has to raise there, and never assigns rc.runs;
\* when it has raised, no solver stage has run and nothing is cached.
C15_ArityMismatchRaises ==
    /\ MixedArity(rc_states) =>
        /\ exec_result \in {"not_called", "ValueError"}
        /\ gi < FirstMismatch(rc_states)
        /\ (gi = FirstMismatch(rc_states) - 1 /\ exec_result = "not_called")
               => GroupRaises(runs, rc_states[gi + 1])
    /\ exec_result = "ValueError" =>
        /\ MixedArity(rc_states)
        /\ rc_runs = <<>>
        /\ log = <<>> /\ calls = <<>> /\ statelibs = <<>>

\* grouping raised at the third State of the input, a shorter one, after two
\* runs were opened by States of equal arity
C15_Witness ==
    /\ exec_result = "ValueError"
    /\ gi = 2
    /\ Len(runs) = 2
    /\ Len(rc_states[3]) < Len(rc_states[1])

\* C16: in a session whose rc.solver is NotSpecified, setup has raised the
\* configuration error (ValueError), no engine was created, and nothing is
\* grouped, cached or solved in that session.
C16_NoSolverSetupRaisesFirst ==
    setup_state.solver = "NotSpecified" =>
        /\ setup_state.result = "ValueError"
        /\ setup_state.engine = "none"
        /\ exec_result = "not_called" /\ gi = 0 /\ runs = <<>> /\ rc_runs = <<>>
        /\ pc = "idle" /\ statelibs = <<>>
        /\ \A p \in LogIdx : log[p].session # session

\* a session without a solver follows one in which States were solved and left
\* their statepoints in the build directory
C16_Witness ==
    /\ setup_state.solver = "NotSpecified"
    /\ session > 1
    /\ disk # <<>>
    /\ \E p \in LogIdx : log[p].stage = "origen" /\ log[p].ok

\* the position at which a State first appears in the input
FirstPos(state) == Min({i \in 1..Len(rc_states) : rc_states[i] = state})

\* the input States that agree with rep on every field but burn_times, in
\* input order
MembersInInputOrder(rep) ==
    LET Matches(state) == NonTimeEqual(rep, state)
    IN  SelectSeq(rc_states, Matches)

\* C17: once grouped, the runs stand in the order in which their first members
\* first appear in the input, and each run is the input sequence restricted to
\* its members, in input order (nothing is re-sorted).
C17_RunsKeepInputOrder ==
    exec_result = "grouped" =>
        /\ \A r1, r2 \in 1..Len(rc_runs) :
               r1 < r2 => FirstPos(rc_runs[r1][1]) < FirstPos(rc_runs[r2][1])
        /\ \A r \in 1..Len(rc_runs) :
               rc_runs[r] = MembersInInputOrder(rc_runs[r][1])

\* an input whose first and third State form a run with descending burn times,
\* with a State of another run between them
C17_Witness ==
    /\ exec_result = "grouped"
    /\ Len(rc_states) = 3
    /\ Len(rc_runs) = 2
    /\ rc_runs[1] = <<rc_states[1], rc_states[3]>>
    /\ rc_runs[2] = <<rc_states[2]>>
    /\ burn_times(rc_states[1]) > burn_times(rc_states[3])

\* no setup between log entries p and q removed the build directory
NoCleanBetween(p, q) ==
    \A s \in cleaned : ~(log[p].session < s /\ s <= log[q].session)

\* an earlier transport stage of the same State succeeded and nothing removed
\* its working directory since: the directory holds a statepoint when stage q
\* begins (each State has its own working directory, pwd line 166)
StatepointAt(q) ==
    \E p \in 1..(q - 1) :
        /\ log[p].stage = "omc" /\ log[p].ok
        /\ log[p].state = log[q].state
        /\ NoCleanBetween(p, q)

\* C18 as stated: between the same two cleanings of the build directory, the
\* transport solver process is started at most once for a working directory.
C18_SolverStartedAtMostOnce ==
    \A p, q \in LogIdx :
        (/\ p < q
         /\ log[p].stage = "omc" /\ log[q].stage = "omc"
         /\ log[p].state = log[q].state
         /\ NoCleanBetween(p, q))
        => ~(log[p].ran /\ log[q].ran)

\* C18, amended: the transport solver process is started for a State exactly
\* when its working directory holds no statepoint; when it holds one, that one
\* is parsed and gives the result of the run that wrote it.  So between two
\* cleanings the process is started again for a directory only after runs that
\* failed there, and runs to completion at most once.
C18_SolverStartedOnlyWithoutStatepoint ==
    /\ \A q \in LogIdx :
           log[q].stage = "omc" => (log[q].ran <=> ~StatepointAt(q))
    /\ \A p, q \in LogIdx :
           (/\ p < q
            /\ log[p].stage = "omc" /\ log[q].stage = "omc"
            /\ log[p].state = log[q].state
            /\ NoCleanBetween(p, q)
            /\ log[p].ok)
           => /\ ~log[q].ran
              /\ log[q].ok
              /\ log[q].out = log[p].out

\* a State's transport solver ran to completion in one session, and a later
\* session on the same build directory found and parsed its statepoint
C18_Witness ==
    \E p, q \in LogIdx :
        /\ p < q
        /\ log[p].stage = "omc" /\ log[q].stage = "omc"
        /\ log[p].state = log[q].state
        /\ log[p].ran /\ log[p].ok
        /\ log[p].session < log[q].session
        /\ NoCleanBetween(p, q)
        /\ ~log[q].ran /\ log[q].ok

\* C19: a library generate_run returned for a run of n steps holds the scalar
\* series time, flux, production, destruction and burnup per step (the rows
\* the writer reads), each with n entries, and its time series is the burn
\* times of the run's States in step order.
C19_LibraryHoldsScalarSeries ==
    \A c \in 1..Len(results) :
        results[c].kind = "lib" =>
            /\ rownames \subseteq DOMAIN results[c].lib
            /\ \A row \in rownames \cap DOMAIN results[c].lib :
                   Len(results[c].lib[row]) = Len(calls[c])
            /\ \A i \in 1..Len(calls[c]) :
                   results[c].lib["TIME"][i] = burn_times(calls[c][i])

\* C20: every transmutation stage directly follows the successful transport
\* stage of the same call, step and State, is handed the cross sections and
\* the flux that transport stage returned, and works on the material that was
\* current when that transport stage began; after a failed transport stage no
\* transmutation stage is started for the State in that solve.
C20_TransportThenTransmutation ==
    /\ \A q \in LogIdx :
           log[q].stage = "origen" =>
               /\ q > 1
               /\ log[q - 1].stage = "omc" /\ log[q - 1].ok
               /\ log[q - 1].session = log[q].session
               /\ log[q - 1].call = log[q].call
               /\ log[q - 1].step = log[q].step
               /\ log[q - 1].state = log[q].state
               /\ log[q].recv = <<log[q - 1].out[3], log[q - 1].out[2]>>
               /\ log[q].fuel_in = log[q - 1].fuel_in
    /\ \A p \in LogIdx :
           (log[p].stage = "omc" /\ ~log[p].ok) =>
               /\ ~\E q \in LogIdx : /\ log[q].stage = "origen"
                                      /\ log[q].call = log[p].call
                                      /\ log[q].step = log[p].step
               /\ p < Len(log) => log[p + 1].call # log[p].call

\* one call lost a State to a failed transport stage, and another call took
\* the second State of its run through both stages
C20_Witness ==
    /\ \E p \in LogIdx : log[p].stage = "omc" /\ ~log[p].ok
    /\ \E q \in LogIdx : log[q].stage = "origen" /\ log[q].ok /\ log[q].step = 2

\* C21: within a session no step removes or changes an entry of statelibs:
\* every State that has an entry keeps it, with the same value, so the set of
\* cached States only grows.
C21_CacheNeverEvictsOrOverwrites ==
    [][session' = session =>
          \A state \in DOMAIN statelibs :
              /\ state \in DOMAIN statelibs'
              /\ statelibs'[state] = statelibs[state]]_vars

\* the cache holds two States, the earlier of which has since been looked up
\* again and answered from its entry
C21_Witness ==
    /\ Cardinality(DOMAIN statelibs) >= 2
    /\ \E p, q \in LogIdx :
           /\ p < q
           /\ log[p].session = session /\ log[q].session = session
           /\ log[p].stage = "cache"
           /\ log[q].stage = "omc" /\ log[q].ok
           /\ log[q].state # log[p].state
           /\ statelibs[log[p].state] = log[p].out

\* every run has a member, its burn times increase strictly from member to
\* member, and the interval generate_run computes for each step but the last
\* is above zero
RunsStrictlyIncreasing ==
    \A r \in 1..Len(rc_runs) :
        /\ Len(rc_runs[r]) >= 1
        /\ \A i \in 1..(Len(rc_runs[r]) - 1) :
               /\ burn_times(rc_runs[r][i]) < burn_times(rc_runs[r][i + 1])
               /\ TransmuteTime(rc_runs[r], i) > 0

\* C22 as stated: every run is non-empty, and when the States that belong
\* together stand in the input in ascending order of burn time (none before
\* one with a smaller burn time), every run's burn times increase strictly and
\* every interval of a non-terminal step is above zero.
C22_AscendingInputStrictRuns ==
    exec_result = "grouped" =>
        /\ \A r \in 1..Len(rc_runs) : Len(rc_runs[r]) >= 1
        /\ (\A i, j \in 1..Len(rc_states) :
                (i < j /\ NonTimeEqual(rc_states[i], rc_states[j]))
                => burn_times(rc_states[i]) <= burn_times(rc_states[j]))
           => RunsStrictlyIncreasing

\* C22, amended: every run is non-empty, and when the States that belong
\* together stand in the input in strictly ascending order of burn time (no
\* burn time twice among them), every run's burn times increase strictly and
\* every interval of a non-terminal step is above zero.
C22_StrictlyAscendingInputStrictRuns ==
    exec_result = "grouped" =>
        /\ \A r \in 1..Len(rc_runs) : Len(rc_runs[r]) >= 1
        /\ (\A i, j \in 1..Len(rc_states) :
                (i < j /\ NonTimeEqual(rc_states[i], rc_states[j]))
                => burn_times(rc_states[i]) < burn_times(rc_states[j]))
           => RunsStrictlyIncreasing

\* an input of three States in strictly ascending order within each group was
\* grouped into a run of two States and a run of one
C22_Witness ==
    /\ exec_result = "grouped"
    /\ Len(rc_states) = 3
    /\ Len(rc_runs) = 2
    /\ Len(rc_runs[1]) = 2
    /\ RunsStrictlyIncreasing
    /\ \A i, j \in 1..Len(rc_states) :
           (i < j /\ NonTimeEqual(rc_states[i], rc_states[j]))
           => burn_times(rc_states[i]) < burn_times(rc_states[j])

\* the caller is between the look-up of generate and its return: its solve is
\* in flight
InFlight(t) == thr[t].pc \in {"openmc", "run", "parse", "origen"}

\* C23: two callers never have a solve of the same State in flight at the same
\* time: a caller that asks for a State another caller is solving waits for
\* that solve instead of starting its own in the same working directory.
C23_NoDuplicateSolveInFlight ==
    \A t1, t2 \in Callers :
        (t1 # t2 /\ InFlight(t1) /\ InFlight(t2)) => thr[t1].state # thr[t2].state

====
